---- MODULE Spec2Model ----
(***************************************************************************)
(* Drift-detection tests of giskard/ml_worker/testing/tests/drift.py:      *)
(* the frequency table builder, the PSI, chi-squared, Kolmogorov-Smirnov   *)
(* and earth-mover calculators, and the test entry points.                 *)
(*                                                                         *)
(* Numbers.  A Python float is modelled as a fixed-point number with six   *)
(* decimals: the record Num(v) stands for v / 1000000.  NaN, PosInf and    *)
(* None are the IEEE not-a-number, the IEEE +infinity and Python's None.   *)
(***************************************************************************)
EXTENDS Integers, Sequences, FiniteSets, TLC

\* Bounds of the model.
MaxLen == 3          \* longest series handed to a calculator on its own
MaxRows == 2         \* most rows of a dataset handed to a test entry point

\* The values a series can hold: category codes, also read as numbers.
Values == 0..2

\* One unit of a float: a millionth.
Scale == 1000 * 1000

None == [k |-> "none", v |-> 0]
NaN == [k |-> "nan", v |-> 0]
PosInf == [k |-> "inf", v |-> 0]
Num(n) == [k |-> "num", v |-> n]
\* A positive float far below a millionth, as rounding leaves behind: n
\* thousandths of 2^-106.
Tiny(n) == [k |-> "tiny", v |-> n]

SetMax(S) == CHOOSE x \in S : \A y \in S : y <= x
SetMin(S) == CHOOSE x \in S : \A y \in S : x <= y

Min2(a, b) == IF a <= b THEN a ELSE b
Abs(a) == IF a >= 0 THEN a ELSE -a

\* The element of a one-element set.  {e(x) : x \in {v}} names the value v
\* as x in e, so that v is computed once.
The(S) == CHOOSE x \in S : TRUE

\* Powers of two and of ten, and 2^s modulo m.
RECURSIVE Pow2(_)
Pow2(n) == IF n = 0 THEN 1 ELSE 2 * Pow2(n - 1)
RECURSIVE Pow10(_)
Pow10(n) == IF n = 0 THEN 1 ELSE 10 * Pow10(n - 1)
RECURSIVE Pow2Mod(_, _)
Pow2Mod(s, m) == IF s = 0 THEN 1 % m ELSE (2 * Pow2Mod(s - 1, m)) % m

\* Sum of a sequence of integers.
RECURSIVE SumSeq(_)
SumSeq(s) == IF s = <<>> THEN 0 ELSE Head(s) + SumSeq(Tail(s))

\* All series of at most n values.
SeriesUpTo(n) == UNION {[1..k -> Values] : k \in 0..n}

\* All enumerations (orders without repetition) of a finite set.
Enumerations(S) ==
  {p \in [1..Cardinality(S) -> S] : \A i, j \in 1..Cardinality(S) : p[i] = p[j] => i = j}

-----------------------------------------------------------------------------
(* collections.Counter *)

\* Counter(series)[v]
Count(series, v) == Cardinality({i \in DOMAIN series : series[i] = v})

\* The keys of Counter(series[:n]), in first-encountered order.
RECURSIVE CounterKeysUpTo(_, _)
CounterKeysUpTo(series, n) ==
  IF n = 0 THEN <<>>
  ELSE IF \E j \in 1..(n - 1) : series[j] = series[n]
       THEN CounterKeysUpTo(series, n - 1)
       ELSE Append(CounterKeysUpTo(series, n - 1), series[n])

CounterKeys(series) == CounterKeysUpTo(series, Len(series))

\* A variant: equal counts resolved by last-encountered order.
StableRankLastFirst(series, keys, i) ==
  1 + Cardinality({j \in DOMAIN keys :
        \/ Count(series, keys[j]) > Count(series, keys[i])
        \/ Count(series, keys[j]) = Count(series, keys[i]) /\ j > i})

\* Position of key i of keys in sorted(keys, by count, reverse=True): a
\* stable sort, so equal counts keep their first-encountered order.
StableRank(series, keys, i) ==
  1 + Cardinality({j \in DOMAIN keys :
        \/ Count(series, keys[j]) > Count(series, keys[i])
        \/ Count(series, keys[j]) = Count(series, keys[i]) /\ j < i})

\* Counter(series).most_common(n): the keys only, most frequent first.
MostCommon(series, n) ==
  The({SubSeq([r \in 1..Len(keys) |->
                 keys[CHOOSE i \in DOMAIN keys : StableRank(series, keys, i) = r]],
              1, Min2(n, Len(keys))) :
       keys \in {CounterKeys(series)}})

-----------------------------------------------------------------------------
(* _calculate_frequencies *)

\* "other_modalities_" + uuid.uuid1().hex: a label no series value equals.
other_modalities_key == -1

\* set(reference_series).union(set(actual_series))
UnionOfValues(actual_series, reference_series) ==
  {reference_series[i] : i \in DOMAIN reference_series}
    \cup {actual_series[i] : i \in DOMAIN actual_series}

\* Whether the capped branch of _calculate_frequencies is taken.
IsCapped(actual_series, reference_series, max_categories) ==
  /\ max_categories # None
  /\ Cardinality(UnionOfValues(actual_series, reference_series)) > max_categories.v

\* A variant: the "other" bucket of the actual side left at the
\* Counter's value instead of the remainder.
CappedActualNoRemainder(actual_series, categories_list) ==
  [i \in DOMAIN categories_list |-> Count(actual_series, categories_list[i])]

\* The capped branch, actual side: the counts of the reference's categories,
\* then the "other" bucket set to the remainder.
CappedActual(actual_series, categories_list) ==
  The({[var_count_actual EXCEPT
          ![Len(categories_list)] = Len(actual_series) - SumSeq(var_count_actual)] :
       var_count_actual \in
         {[i \in DOMAIN categories_list |-> Count(actual_series, categories_list[i])]}})

\* The capped branch, reference side: the most common categories and the
\* "other" bucket holding the remainder.
CappedExpected(reference_series, max_categories) ==
  The({The({[keys |-> Append(top, other_modalities_key),
             counts |-> Append(counts, Len(reference_series) - SumSeq(counts))] :
            counts \in {[i \in DOMAIN top |-> Count(reference_series, top[i])]}}) :
       top \in {MostCommon(reference_series, max_categories.v)}})

\* _calculate_frequencies.  order is the order in which list(set(...))
\* enumerates the union of the values, which the language leaves open.
Frequencies(actual_series, reference_series, max_categories, order) ==
  IF IsCapped(actual_series, reference_series, max_categories)
  THEN The({[all_modalities |-> expected.keys,
             actual_frequencies |-> CappedActual(actual_series, expected.keys),
             expected_frequencies |-> expected.counts] :
            expected \in {CappedExpected(reference_series, max_categories)}})
  ELSE [all_modalities |-> order,
        actual_frequencies |-> [i \in DOMAIN order |-> Count(actual_series, order[i])],
        expected_frequencies |-> [i \in DOMAIN order |-> Count(reference_series, order[i])]]

\* The orders list(set(...)) can produce for the two series.  On the capped
\* path the list is replaced by the categories of the reference, so its
\* order is of no effect and one order stands for all.
ModalityOrders(actual_series, reference_series, max_categories) ==
  IF IsCapped(actual_series, reference_series, max_categories)
  THEN {<<>>}
  ELSE Enumerations(UnionOfValues(actual_series, reference_series))

-----------------------------------------------------------------------------
(* Floating-point helpers *)

\* numpy.log of a positive integer, to three decimals, from the logarithms
\* of its prime factors (so that log(p) - log(q) = 0 exactly when p = q).
RECURSIVE LnMilli(_)
LnMilli(n) ==
  CASE n = 1 -> 0
    [] n > 1 /\ n % 2 = 0 -> 693 + LnMilli(n \div 2)
    [] n > 1 /\ n % 2 # 0 /\ n % 3 = 0 -> 1099 + LnMilli(n \div 3)
    [] n > 1 /\ n % 2 # 0 /\ n % 3 # 0 /\ n % 5 = 0 -> 1609 + LnMilli(n \div 5)
    [] n > 1 /\ n % 2 # 0 /\ n % 3 # 0 /\ n % 5 # 0 /\ n % 7 = 0 -> 1946 + LnMilli(n \div 7)

\* A quotient of two counts, kept exact; a zero denominator with a zero
\* numerator is the nan that numpy's 0 / 0 gives.
Frac(n, d) == [n |-> n, d |-> d]
FracIsNaN(f) == f.d = 0

\* frequencies / len(series), element by element.
Distribution(frequencies, length) ==
  [i \in DOMAIN frequencies |-> Frac(frequencies[i], length)]

\* x <= y of two floats; every comparison with nan is False.
FloatLeq(x, y) ==
  CASE x.k = "nan" \/ y.k = "nan" -> FALSE
    [] x.k = "num" /\ y.k = "num" -> x.v <= y.v
    [] x.k = "inf" /\ y.k = "inf" -> TRUE
    [] x.k = "num" /\ y.k = "inf" -> TRUE
    [] x.k = "inf" /\ y.k = "num" -> FALSE
    [] x.k = "tiny" /\ y.k = "tiny" -> x.v <= y.v
    [] x.k = "tiny" /\ y.k = "num" -> y.v > 0
    [] x.k = "num" /\ y.k = "tiny" -> x.v <= 0
    [] x.k = "tiny" /\ y.k = "inf" -> TRUE
    [] x.k = "inf" /\ y.k = "tiny" -> FALSE

\* x > y of two floats.
FloatGt(x, y) ==
  CASE x.k = "nan" \/ y.k = "nan" -> FALSE
    [] x.k = "num" /\ y.k = "num" -> x.v > y.v
    [] x.k = "inf" /\ y.k = "inf" -> FALSE
    [] x.k = "num" /\ y.k = "inf" -> FALSE
    [] x.k = "inf" /\ y.k = "num" -> TRUE
    [] x.k = "tiny" /\ y.k = "tiny" -> x.v > y.v
    [] x.k = "tiny" /\ y.k = "num" -> y.v <= 0
    [] x.k = "num" /\ y.k = "tiny" -> x.v > 0
    [] x.k = "tiny" /\ y.k = "inf" -> FALSE
    [] x.k = "inf" /\ y.k = "tiny" -> TRUE

\* The sum of a sequence of floats: nan absorbs, then +infinity; the tiny
\* terms show only when nothing larger is added to them.
FloatSum(s) ==
  IF \E i \in DOMAIN s : s[i].k = "nan" THEN NaN
  ELSE IF \E i \in DOMAIN s : s[i].k = "inf" THEN PosInf
  ELSE IF \A i \in DOMAIN s : s[i].k = "num"
  THEN Num(SumSeq([i \in DOMAIN s |-> s[i].v]))
  ELSE IF SumSeq([i \in DOMAIN s |-> IF s[i].k = "num" THEN s[i].v ELSE 0]) # 0
  THEN Num(SumSeq([i \in DOMAIN s |-> IF s[i].k = "num" THEN s[i].v ELSE 0]))
  ELSE Tiny(SumSeq([i \in DOMAIN s |-> IF s[i].k = "tiny" THEN s[i].v ELSE 0]))

-----------------------------------------------------------------------------
(* _calculate_psi and _calculate_drift_psi *)

\* min_distribution_probability = 0.0001 is 1 / MinProbabilityDen.
MinProbabilityDen == 10000

\* Python's max(p, min_distribution_probability); max(nan, x) is nan,
\* because x > nan is False.
Bounded(p) ==
  IF FracIsNaN(p) THEN p
  ELSE IF p.n * MinProbabilityDen < p.d THEN Frac(1, MinProbabilityDen) ELSE p

\* A variant: the logarithm of the inverse quotient.
PsiMilliInverted(e, a) ==
  ((e.n * a.d - a.n * e.d) * (LnMilli(a.n * e.d) - LnMilli(e.n * a.d))) \div (e.d * a.d)

\* (e - a) * log(e / a) of two bounded probabilities, in thousandths.
PsiMilli(e, a) ==
  ((e.n * a.d - a.n * e.d) * (LnMilli(e.n * a.d) - LnMilli(a.n * e.d))) \div (e.d * a.d)

\* _calculate_psi
CalculatePsi(category, actual_distribution, expected_distribution) ==
  The({IF FracIsNaN(expected_distribution_bounded) \/ FracIsNaN(actual_distribution_bounded)
       THEN NaN
       ELSE Num(1000 * PsiMilli(expected_distribution_bounded, actual_distribution_bounded)) :
       expected_distribution_bounded \in {Bounded(expected_distribution[category])},
       actual_distribution_bounded \in {Bounded(actual_distribution[category])}})

\* _calculate_drift_psi: the total and the per-modality table.
CalculateDriftPsi(actual_series, reference_series, max_categories, order) ==
  The({The({The({[total_psi |-> FloatSum(psi),
                  output_data |-> [c \in DOMAIN freq.all_modalities |->
                                     [Modality |-> freq.all_modalities[c],
                                      Reference_distribution |-> expected_distribution[c],
                                      Actual_distribution |-> expected_distribution[c],
                                      Psi |-> psi[c]]]] :
                 psi \in {[c \in DOMAIN freq.all_modalities |->
                             CalculatePsi(c, actual_distribution, expected_distribution)]}}) :
            expected_distribution \in
              {Distribution(freq.expected_frequencies, Len(reference_series))},
            actual_distribution \in
              {Distribution(freq.actual_frequencies, Len(actual_series))}}) :
       freq \in {Frequencies(actual_series, reference_series, max_categories, order)}})

-----------------------------------------------------------------------------
(* _calculate_chi_square *)

\* Upper quantiles of the chi-squared distribution, <<statistic, cdf>> in
\* millionths, for 1 to 4 degrees of freedom.
Chi2Quantiles ==
  << << <<15800, 100000>>, <<455000, 500000>>, <<2706000, 900000>>,
        <<3841000, 950000>>, <<6635000, 990000>>, <<10828000, 999000>> >>,
     << <<211000, 100000>>, <<1386000, 500000>>, <<4605000, 900000>>,
        <<5991000, 950000>>, <<9210000, 990000>>, <<13816000, 999000>> >>,
     << <<584000, 100000>>, <<2366000, 500000>>, <<6251000, 900000>>,
        <<7815000, 950000>>, <<11345000, 990000>>, <<16266000, 999000>> >>,
     << <<1064000, 100000>>, <<3357000, 500000>>, <<7779000, 900000>>,
        <<9488000, 950000>>, <<13277000, 990000>>, <<18467000, 999000>> >> >>

\* scipy.stats.chi2.cdf(x, df), rounded up to the next tabulated quantile:
\* 0 at x = 0, positive for every x > 0, 1 at +infinity, nan at nan.  Of a
\* tiny x it is tiny itself (about (x / 2) ** (df / 2)), and not zero.
Chi2Cdf(x, df) ==
  CASE x.k = "nan" -> NaN
    [] x.k = "inf" -> Num(Scale)
    [] x.k = "tiny" -> Tiny(x.v)
    [] x.k = "num" /\ x.v <= 0 -> Num(0)
    [] x.k = "num" /\ x.v > 0 ->
         LET q == Chi2Quantiles[df]
             above == {i \in DOMAIN q : x.v <= q[i][1]}
         IN IF above = {} THEN Num(Scale - 1)
            ELSE Num(q[CHOOSE i \in above : \A j \in above : i <= j][2])

\* The first digits decimals of r / den, for 0 <= r < den, by long division.
RECURSIVE Decimals(_, _, _)
Decimals(r, den, digits) ==
  IF digits = 0 THEN 0
  ELSE ((10 * r) \div den) * Pow10(digits - 1) + Decimals((10 * r) % den, den, digits - 1)

\* x / y of two non-negative floats given as integer quotients: numpy gives
\* nan for 0 / 0 and +infinity for x / 0 with x > 0.
FloatDiv(num, den) ==
  IF den = 0 THEN (IF num = 0 THEN NaN ELSE PosInf)
  ELSE Num((num \div den) * Scale + Decimals(num % den, den, 6))

\* The g with 2^g <= n / d < 2^(g + 1): the binary exponent of the float.
RECURSIVE FloorLog2(_, _)
FloorLog2(n, d) ==
  IF n >= 2 * d THEN FloorLog2(n, 2 * d) + 1
  ELSE IF n < d THEN FloorLog2(2 * n, d) - 1
  ELSE 0

\* k_norm = n_actual / n_reference is the quotient rounded to the 53 bits of
\* a float: m * 2^(g - 52) with m the integer nearest to
\* n_actual * 2^(52 - g) / n_reference.  The error m * n_reference -
\* n_actual * 2^(52 - g) is found from the remainder of the division; a tie
\* cannot happen with counts this far below 2^52.
KNormError(n_actual, n_reference) ==
  The({IF 2 * r <= n_reference THEN 0 - r ELSE n_reference - r :
       r \in {((n_actual % n_reference)
                 * Pow2Mod(52 - FloorLog2(n_actual, n_reference), n_reference))
               % n_reference}})

\* The term of a modality whose two proportions are equal, so that
\* expected * k_norm is the actual count a but for rounding.  The product of
\* expected and the rounded k_norm lies within one unit in the last place of
\* a, and is rounded to a or to the float next to it (half as far away below
\* a power of two); the term is then the square of that distance over a.
RoundedTermAtEqualProportions(expected_frequency, n_actual, n_reference) ==
  The({The({IF eps >= 0 \/ a # Pow2(FloorLog2(a, 1))
            THEN (IF 2 * Abs(eps) * expected_frequency * Pow2(SetMax({g, 0}))
                       > n_reference * Pow2(FloorLog2(a, 1)) * Pow2(SetMax({0 - g, 0}))
                  THEN Tiny((4 * Pow2(2 * FloorLog2(a, 1)) * 1000) \div a)
                  ELSE Num(0))
            ELSE (IF 4 * Abs(eps) * expected_frequency * Pow2(SetMax({g, 0}))
                       > n_reference * Pow2(FloorLog2(a, 1)) * Pow2(SetMax({0 - g, 0}))
                  THEN Tiny((Pow2(2 * FloorLog2(a, 1)) * 1000) \div a)
                  ELSE Num(0)) :
            eps \in {KNormError(n_actual, n_reference)}}) :
       <<a, g>> \in {<<(expected_frequency * n_actual) \div n_reference,
                       FloorLog2(n_actual, n_reference)>>}})

\* One term of the statistic: (actual - expected * k_norm) ** 2 /
\* (expected * k_norm), with k_norm = n_actual / n_reference.  The rounding
\* of the floats shows only where the exact term is zero.
ChiSquareValue(actual_frequency, expected_frequency, n_actual, n_reference) ==
  IF n_reference * expected_frequency * n_actual # 0
     /\ actual_frequency * n_reference = expected_frequency * n_actual
  THEN RoundedTermAtEqualProportions(expected_frequency, n_actual, n_reference)
  ELSE FloatDiv((actual_frequency * n_reference - expected_frequency * n_actual)
                  * (actual_frequency * n_reference - expected_frequency * n_actual),
                n_reference * expected_frequency * n_actual)

\* A variant: p_value = 1 - chi_cdf throughout.
PValueOfCdfPlain(chi_cdf) ==
  CASE chi_cdf.k = "nan" -> NaN
    [] chi_cdf.k = "tiny" -> Num(Scale)
    [] chi_cdf.k = "num" -> Num(Scale - chi_cdf.v)

\* p_value = 1 - chi_cdf if chi_cdf != 0 else 0
PValueOfCdf(chi_cdf) ==
  CASE chi_cdf.k = "nan" -> NaN
    [] chi_cdf.k = "tiny" -> Num(Scale)
    [] chi_cdf.k = "num" /\ chi_cdf.v # 0 -> Num(Scale - chi_cdf.v)
    [] chi_cdf.k = "num" /\ chi_cdf.v = 0 -> Num(0)

\* A variant: the single-modality guard dropped, p_value = 1 there.
ChiPValueNoGuard(chi_square, n_modalities) ==
  IF n_modalities > 1
  THEN PValueOfCdf(Chi2Cdf(chi_square, n_modalities - 1))
  ELSE Num(Scale)

\* The p-value of _calculate_chi_square from the statistic and the number
\* of modalities.
ChiPValue(chi_square, n_modalities) ==
  IF n_modalities > 1
  THEN PValueOfCdf(Chi2Cdf(chi_square, n_modalities - 1))
  ELSE Num(0)

\* _calculate_chi_square.  err is "ZeroDivisionError" when k_norm divides by
\* an empty reference series.
CalculateChiSquare(actual_series, reference_series, max_categories, order) ==
  IF Len(reference_series) = 0
  THEN [err |-> "ZeroDivisionError", chi_square |-> NaN, p_value |-> NaN,
        output_data |-> <<>>]
  ELSE
  The({The({The({[err |-> "none",
                  chi_square |-> chi_square,
                  p_value |-> ChiPValue(chi_square, Len(freq.all_modalities)),
                  output_data |-> [i \in DOMAIN freq.all_modalities |->
                                     [Modality |-> freq.all_modalities[i],
                                      Reference_frequencies |-> freq.expected_frequencies[i],
                                      Actual_frequencies |-> freq.actual_frequencies[i],
                                      Chi_square |-> values[i]]]] :
                 chi_square \in {FloatSum(values)}}) :
            values \in {[i \in DOMAIN freq.all_modalities |->
                           ChiSquareValue(freq.actual_frequencies[i],
                                          freq.expected_frequencies[i],
                                          Len(actual_series), Len(reference_series))]}}) :
       freq \in {Frequencies(actual_series, reference_series, max_categories, order)}})

-----------------------------------------------------------------------------
(* _calculate_ks *)

\* Number of values of the series that are <= x.
CumCount(series, x) == Cardinality({i \in DOMAIN series : series[i] <= x})

\* Number of lattice paths from (0, 0) to (i, j) that stay strictly inside
\* the band |i * n2 - j * n1| < h.
RECURSIVE KsPathsTo(_, _, _, _, _)
KsPathsTo(i, j, n1, n2, h) ==
  IF Abs(i * n2 - j * n1) >= h THEN 0
  ELSE IF i = 0 /\ j = 0 THEN 1
  ELSE (IF i > 0 THEN KsPathsTo(i - 1, j, n1, n2, h) ELSE 0)
         + (IF j > 0 THEN KsPathsTo(i, j - 1, n1, n2, h) ELSE 0)

KsPathsInside(n1, n2, h) == KsPathsTo(n1, n2, n1, n2, h)

\* scipy.stats.ks_2samp(data1, data2), exact two-sided method: the statistic
\* is the largest distance between the two empirical distribution functions
\* and the p-value the share of lattice paths that reach that distance.
Ks2Samp(data1, data2) ==
  IF Len(data1) = 0 \/ Len(data2) = 0
  THEN [err |-> "ValueError", statistic |-> NaN, pvalue |-> NaN]
  ELSE The({[err |-> "none",
             statistic |-> Num((h * Scale) \div (Len(data1) * Len(data2))),
             pvalue |-> IF h = 0 THEN Num(Scale)
                        ELSE Num(((total - KsPathsInside(Len(data1), Len(data2), h)) * Scale)
                                   \div total)] :
            h \in {SetMax({Abs(CumCount(data1, x) * Len(data2)
                                - CumCount(data2, x) * Len(data1)) :
                           x \in UnionOfValues(data1, data2)})},
            total \in {KsPathsInside(Len(data1), Len(data2),
                                     Len(data1) * Len(data2) + 1)}})

\* _calculate_ks
CalculateKs(actual_series, reference_series) == Ks2Samp(reference_series, actual_series)

-----------------------------------------------------------------------------
(* _calculate_earth_movers_distance *)

\* A variant: the signed area between the two distribution functions.
NormalisedWassersteinSigned(u_values, v_values, val_min, val_max) ==
  LET nu == Len(u_values)
      nv == Len(v_values)
      area == SumSeq([k \in 1..(val_max - val_min) |->
                CumCount(u_values, val_min + k - 1) * nv
                  - CumCount(v_values, val_min + k - 1) * nu])
  IN Num((area * Scale) \div (nu * nv * (val_max - val_min)))

\* scipy.stats.wasserstein_distance of the two series after both were
\* normalised with (x - val_min) / (val_max - val_min): the area between the
\* two empirical distribution functions.
NormalisedWasserstein(u_values, v_values, val_min, val_max) ==
  LET nu == Len(u_values)
      nv == Len(v_values)
      area == SumSeq([k \in 1..(val_max - val_min) |->
                Abs(CumCount(u_values, val_min + k - 1) * nv
                      - CumCount(v_values, val_min + k - 1) * nu)])
  IN Num((area * Scale) \div (nu * nv * (val_max - val_min)))

\* _calculate_earth_movers_distance.  max() of an empty sample space and
\* wasserstein_distance of an empty series raise ValueError.  divisions
\* counts the divisions by val_max - val_min that were carried out.
CalculateEarthMoversDistance(actual_series, reference_series) ==
  IF UnionOfValues(actual_series, reference_series) = {}
  THEN [err |-> "ValueError", metric |-> NaN, divisions |-> 0]
  ELSE The({IF val_max = val_min THEN [err |-> "none", metric |-> Num(0), divisions |-> 0]
            ELSE IF Len(actual_series) = 0 \/ Len(reference_series) = 0
                 THEN [err |-> "ValueError", metric |-> NaN, divisions |-> 2]
                 ELSE [err |-> "none", divisions |-> 2,
                       metric |-> NormalisedWasserstein(reference_series, actual_series,
                                                        val_min, val_max)] :
            val_max \in {SetMax(UnionOfValues(actual_series, reference_series))},
            val_min \in {SetMin(UnionOfValues(actual_series, reference_series))}})

-----------------------------------------------------------------------------
(* Datasets, models, test results *)

\* The columns of the two datasets; "extra" exists in the actual one only.
ActualColumns == {"cat", "num", "extra"}
ReferenceColumns == {"cat", "num"}

\* Dataset.feature_types[column_name]
FeatureType(column_name) == IF column_name = "num" THEN "numeric" ELSE "category"

\* The index of a frame whose rows are numbered from 0, and an index left
\* behind by slicing a larger frame.
RangeIndex(n) == [i \in 1..n |-> i - 1]
SlicedIndex(n) == [i \in 1..n |-> 2 * i + 1]

\* The datasets a caller can hand over.
Datasets(columns) ==
  {[df_index |-> idx, rows |-> rows, columns |-> columns] :
     <<rows, idx>> \in {<<r, i>> \in SeriesUpTo(MaxRows) \X
                          (UNION {{RangeIndex(n), SlicedIndex(n)} : n \in 0..MaxRows}) :
                          Len(r) = Len(i)}}

\* df.reset_index(drop=True, inplace=True)
ResetIndex(ds) == [ds EXCEPT !.df_index = RangeIndex(Len(ds.rows))]

\* ds.df[column_name]: every column holds the rows' values.
Column(ds, column_name) == ds.rows

Classifier == [model_type |-> "classification", classification_labels |-> <<"yes", "no">>]
Regressor == [model_type |-> "regression", classification_labels |-> <<>>]
NoModel == [model_type |-> "none", classification_labels |-> <<>>]
Models == {Classifier, Regressor}

\* classification_label = None
NoLabel == "None"

\* A category is a string; a number is kept apart from the categories by
\* lying above them.
IsText(w) == w <= SetMax(Values)

\* model.predict(ds): one prediction per row, a label (a string) from a
\* classifier and a number from a regression model, and for a classifier
\* one probability column per label.
Predict(model, ds) ==
  [prediction |-> IF model.model_type = "classification" THEN ds.rows
                  ELSE [i \in DOMAIN ds.rows |-> ds.rows[i] + Cardinality(Values)],
   all_predictions |->
     [l \in {model.classification_labels[i] : i \in DOMAIN model.classification_labels} |->
        [i \in DOMAIN ds.rows |->
           IF l = model.classification_labels[1] THEN ds.rows[i]
           ELSE SetMax(Values) - ds.rows[i]]]]

\* messages = None, and a list of TestMessage.
NoMessages == [k |-> "none", items |-> <<>>]
MessageList(items) == [k |-> "list", items |-> items]

\* np.round(x, 9): a float of six decimals is its own rounding.
Round9(x) == IF x.k = "tiny" THEN Num(0) ELSE x

\* TestMessage(type=ERROR, text=...): the text kept as its template and the
\* values formatted into it.
ErrorMessage(template, data_type, modalities, value, threshold) ==
  [type |-> "ERROR",
   text |-> [template |-> template, data_type |-> data_type, modalities |-> modalities,
             value |-> value, threshold |-> threshold]]

\* A call that raised.  validation tells the errors of the input checks
\* from the errors raised once computing has begun.
Raised(error, validation, steps) ==
  [status |-> "raised", error |-> error, validation |-> validation, steps |-> steps,
   passed |-> FALSE, metric |-> NaN, messages |-> NoMessages,
   actual_slices_size |-> 0, reference_slices_size |-> 0]

\* TestResult(actual_slices_size=[..], reference_slices_size=[..], passed=..,
\* metric=.., messages=..)
TestResult(actual_size, reference_size, passed, metric, messages, steps) ==
  [status |-> "returned", error |-> "none", validation |-> FALSE, steps |-> steps,
   passed |-> passed, metric |-> metric, messages |-> messages,
   actual_slices_size |-> actual_size, reference_slices_size |-> reference_size]

ResetSteps == <<"reset_index(actual)", "reset_index(reference)">>

-----------------------------------------------------------------------------
(* _validate_column_name, _validate_feature_type, _validate_series_notempty,
   _extract_series *)

\* _extract_series: the steps taken, the error raised if any, the series.
ExtractSeries(actual, reference, column_name, feature_type) ==
  LET failed(error, steps) ==
        [err |-> error, steps |-> steps, actual_series |-> <<>>, reference_series |-> <<>>]
      s1 == Append(ResetSteps, "validate_column_name")
      s2 == Append(s1, "validate_feature_type(actual)")
      s3 == Append(s2, "validate_feature_type(reference)")
      s4 == Append(s3, "validate_series_notempty")
  IN CASE column_name \notin actual.columns -> failed("AssertionError", s1)
       [] column_name \in actual.columns /\ column_name \notin reference.columns ->
            failed("AssertionError", s1)
       [] column_name \in actual.columns /\ column_name \in reference.columns
            /\ FeatureType(column_name) # feature_type ->
            failed("AssertionError", s2)
       [] column_name \in actual.columns /\ column_name \in reference.columns
            /\ FeatureType(column_name) = feature_type
            /\ (Len(Column(actual, column_name)) = 0
                  \/ Len(Column(reference, column_name)) = 0) ->
            failed("ValueError", s4)
       [] OTHER ->
            [err |-> "none", steps |-> s4,
             actual_series |-> Column(actual, column_name),
             reference_series |-> Column(reference, column_name)]

-----------------------------------------------------------------------------
(* _generate_message_modalities, _test_series_drift_psi, _test_series_drift_chi *)

\* percent * total of two floats.
FloatTimes(percent, total) ==
  IF total.k = "num" THEN Num((total.v * (percent.v \div 10000)) \div 100)
  ELSE IF total.k = "tiny" THEN Tiny((total.v * (percent.v \div 10000)) \div 100)
  ELSE total

\* re.match(other_modalities_pattern, w) of a string: the pattern matches
\* every generated "other" key, and any category that is named like one.
\* The last of the values stands for a category of the data with such a name.
MatchesOtherPattern(w) == w = other_modalities_key \/ w = SetMax(Values)

\* A variant: no modality is filtered out.
FilteredModalitiesUpToAll(main_drifting_modalities_bool, output_data, n) ==
  IF n = 0 THEN <<>>
  ELSE [i \in 1..Cardinality({j \in 1..n : main_drifting_modalities_bool[j]}) |->
          output_data[CHOOSE j \in 1..n :
                        /\ main_drifting_modalities_bool[j]
                        /\ Cardinality({k \in 1..j : main_drifting_modalities_bool[k]}) = i
                     ].Modality]

\* The modalities of the flagged rows among the first n, in table order,
\* without those that match other_modalities_pattern.
RECURSIVE FilteredModalitiesUpTo(_, _, _)
FilteredModalitiesUpTo(main_drifting_modalities_bool, output_data, n) ==
  IF n = 0 THEN <<>>
  ELSE IF main_drifting_modalities_bool[n] /\ ~MatchesOtherPattern(output_data[n].Modality)
       THEN Append(FilteredModalitiesUpTo(main_drifting_modalities_bool, output_data, n - 1),
                   output_data[n].Modality)
       ELSE FilteredModalitiesUpTo(main_drifting_modalities_bool, output_data, n - 1)

FilteredModalities(main_drifting_modalities_bool, output_data) ==
  FilteredModalitiesUpTo(main_drifting_modalities_bool, output_data, Len(output_data))

\* _generate_message_modalities.  re.match raises TypeError on a flagged
\* modality that is not a string.
GenerateMessageModalities(main_drifting_modalities_bool, output_data, test_data) ==
  IF \E i \in DOMAIN output_data :
       main_drifting_modalities_bool[i] /\ ~IsText(output_data[i].Modality)
  THEN [k |-> "TypeError", items |-> <<>>]
  ELSE
  The({IF filtered_modalities # <<>>
       THEN MessageList(<<ErrorMessage("drifting for the following modalities", test_data,
                                       filtered_modalities, NaN, None)>>)
       ELSE NoMessages :
       filtered_modalities \in
         {FilteredModalities(main_drifting_modalities_bool, output_data)}})

\* A variant: a strict comparison.
PsiPassedStrict(total_psi, threshold) ==
  IF threshold = None THEN TRUE ELSE FloatGt(threshold, total_psi)

\* passed = True if threshold is None else bool(total_psi <= threshold)
PsiPassed(total_psi, threshold) ==
  IF threshold = None THEN TRUE ELSE FloatLeq(total_psi, threshold)

\* _test_series_drift_psi.  err is the error raised when the messages are
\* built.
TestSeriesDriftPsi(actual_series, reference_series, test_data, max_categories, psi_contribution_percent, threshold, order) ==
  The({The({The({[err |-> IF messages.k = "TypeError" THEN "TypeError" ELSE "none",
                  messages |-> messages,
                  passed |-> PsiPassed(psi.total_psi, threshold),
                  total_psi |-> psi.total_psi] :
                 messages \in {GenerateMessageModalities(main_drifting_modalities_bool,
                                                         psi.output_data, test_data)}}) :
            main_drifting_modalities_bool \in
              {[i \in DOMAIN psi.output_data |->
                  FloatGt(psi.output_data[i].Psi,
                          FloatTimes(psi_contribution_percent, psi.total_psi))]}}) :
       psi \in {CalculateDriftPsi(actual_series, reference_series, max_categories, order)}})

\* A variant: a p-value equal to the threshold passes.
ChiPassedNotStrict(p_value, threshold) == FloatLeq(threshold, p_value)

\* passed = bool(p_value > threshold)
ChiPassed(p_value, threshold) == FloatGt(p_value, threshold)

\* _test_series_drift_chi.  err is the error raised: the calculator's, or
\* the TypeError of comparing the p-value with None.
TestSeriesDriftChi(actual_series, reference_series, test_data, chi_square_contribution_percent, max_categories, threshold, order) ==
  The({IF chi.err # "none"
       THEN [err |-> chi.err, messages |-> NoMessages, p_value |-> NaN, passed |-> FALSE]
       ELSE IF threshold = None
       THEN [err |-> "TypeError", messages |-> NoMessages, p_value |-> chi.p_value,
             passed |-> FALSE]
       ELSE The({The({[err |-> IF messages.k = "TypeError" THEN "TypeError" ELSE "none",
                       messages |-> messages,
                       p_value |-> chi.p_value,
                       passed |-> ChiPassed(chi.p_value, threshold)] :
                      messages \in {GenerateMessageModalities(
                                      main_drifting_modalities_bool, chi.output_data,
                                      test_data)}}) :
                 main_drifting_modalities_bool \in
                   {[i \in DOMAIN chi.output_data |->
                       FloatGt(chi.output_data[i].Chi_square,
                               FloatTimes(chi_square_contribution_percent,
                                          chi.chi_square))]}}) :
       chi \in {CalculateChiSquare(actual_series, reference_series, max_categories, order)}})

-----------------------------------------------------------------------------
(* The feature drift tests *)

CalculatorSteps(steps) == Append(steps, "calculator")

\* test_drift_psi
test_drift_psi(reference, actual, column_name, threshold, max_categories, psi_contribution_percent, order) ==
  The({IF ex.err # "none" THEN Raised(ex.err, TRUE, ex.steps)
       ELSE The({IF t.err # "none" THEN Raised(t.err, FALSE, CalculatorSteps(ex.steps))
                 ELSE TestResult(Len(ex.actual_series), Len(ex.reference_series), t.passed,
                                 t.total_psi, t.messages, CalculatorSteps(ex.steps)) :
                 t \in {TestSeriesDriftPsi(ex.actual_series, ex.reference_series, "data",
                                           max_categories, psi_contribution_percent,
                                           threshold, order)}}) :
       ex \in {ExtractSeries(actual, reference, column_name, "category")}})

\* test_drift_chi_square
test_drift_chi_square(reference, actual, column_name, threshold, max_categories, chi_square_contribution_percent, order) ==
  The({IF ex.err # "none" THEN Raised(ex.err, TRUE, ex.steps)
       ELSE The({IF t.err # "none" THEN Raised(t.err, FALSE, CalculatorSteps(ex.steps))
                 ELSE TestResult(Len(ex.actual_series), Len(ex.reference_series), t.passed,
                                 t.p_value, t.messages, CalculatorSteps(ex.steps)) :
                 t \in {TestSeriesDriftChi(ex.actual_series, ex.reference_series, "data",
                                           chi_square_contribution_percent, max_categories,
                                           threshold, order)}}) :
       ex \in {ExtractSeries(actual, reference, column_name, "category")}})

\* _generate_message_ks
GenerateMessageKs(passed, ks_result, threshold, data_type) ==
  IF ~passed
  THEN MessageList(<<ErrorMessage("p-value is below the test risk level", data_type, <<>>,
                                  Round9(ks_result.pvalue), threshold)>>)
  ELSE NoMessages

\* A variant: a strict comparison.
KsPassedStrict(pvalue, threshold) == FloatGt(pvalue, threshold)

\* bool(result.pvalue >= threshold)
KsPassed(pvalue, threshold) == FloatLeq(threshold, pvalue)

\* test_drift_ks.  Comparing the p-value with a threshold of None raises
\* TypeError.
test_drift_ks(reference, actual, column_name, threshold) ==
  The({IF ex.err # "none" THEN Raised(ex.err, TRUE, ex.steps)
       ELSE The({IF ks_result.err # "none"
                 THEN Raised(ks_result.err, FALSE, CalculatorSteps(ex.steps))
                 ELSE IF threshold = None
                 THEN Raised("TypeError", FALSE, CalculatorSteps(ex.steps))
                 ELSE The({TestResult(Len(ex.actual_series), Len(ex.reference_series),
                                      passed, ks_result.pvalue,
                                      GenerateMessageKs(passed, ks_result, threshold, "data"),
                                      CalculatorSteps(ex.steps)) :
                           passed \in {KsPassed(ks_result.pvalue, threshold)}}) :
                 ks_result \in {CalculateKs(ex.actual_series, ex.reference_series)}}) :
       ex \in {ExtractSeries(actual, reference, column_name, "numeric")}})

\* bool(metric <= threshold)
EmdPassed(metric, threshold) == FloatLeq(metric, threshold)

\* test_drift_earth_movers_distance.  passed = bool(metric <= threshold) is
\* computed before the threshold is tested for None, and raises TypeError
\* when it is None.
test_drift_earth_movers_distance(reference, actual, column_name, threshold) ==
  The({IF ex.err # "none" THEN Raised(ex.err, TRUE, ex.steps)
       ELSE The({IF emd.err # "none" THEN Raised(emd.err, FALSE, CalculatorSteps(ex.steps))
                 ELSE IF threshold = None
                 THEN Raised("TypeError", FALSE, CalculatorSteps(ex.steps))
                 ELSE The({TestResult(
                             Len(ex.actual_series), Len(ex.reference_series),
                             IF threshold = None THEN TRUE ELSE passed,
                             emd.metric,
                             IF ~passed
                             THEN MessageList(<<ErrorMessage(
                                    "metric is below the test risk level", "data", <<>>,
                                    Round9(emd.metric), threshold)>>)
                             ELSE NoMessages,
                             CalculatorSteps(ex.steps)) :
                           passed \in {EmdPassed(emd.metric, threshold)}}) :
                 emd \in {CalculateEarthMoversDistance(ex.actual_series,
                                                       ex.reference_series)}}) :
       ex \in {ExtractSeries(actual, reference, column_name, "numeric")}})

-----------------------------------------------------------------------------
(* The prediction drift tests *)

PredictSteps == ResetSteps \o <<"predict(reference)", "predict(actual)">>

\* The steps of a label-selectable test that checks the label first.
LabelSteps ==
  Append(ResetSteps, "validate_classification_label")
    \o <<"predict(reference)", "predict(actual)", "calculator">>

\* test_drift_prediction_psi
test_drift_prediction_psi(reference_slice, actual_slice, model, max_categories, threshold, psi_contribution_percent, order) ==
  The({The({IF t.err # "none" THEN Raised(t.err, FALSE, CalculatorSteps(PredictSteps))
            ELSE TestResult(Len(actual_slice.rows), Len(reference_slice.rows), t.passed,
                            t.total_psi, t.messages, CalculatorSteps(PredictSteps)) :
            t \in {TestSeriesDriftPsi(prediction_actual, prediction_reference, "prediction",
                                      max_categories, psi_contribution_percent, threshold,
                                      order)}}) :
       prediction_reference \in {Predict(model, reference_slice).prediction},
       prediction_actual \in {Predict(model, actual_slice).prediction}})

\* test_drift_prediction_chi_square
test_drift_prediction_chi_square(reference_slice, actual_slice, model, max_categories, threshold, chi_square_contribution_percent, order) ==
  The({The({IF t.err # "none" THEN Raised(t.err, FALSE, CalculatorSteps(PredictSteps))
            ELSE TestResult(Len(actual_slice.rows), Len(reference_slice.rows), t.passed,
                            t.p_value, t.messages, CalculatorSteps(PredictSteps)) :
            t \in {TestSeriesDriftChi(prediction_actual, prediction_reference, "prediction",
                                      chi_square_contribution_percent, max_categories,
                                      threshold, order)}}) :
       prediction_reference \in {Predict(model, reference_slice).prediction},
       prediction_actual \in {Predict(model, actual_slice).prediction}})

\* classification_label in model.meta.classification_labels
KnownLabel(model, classification_label) ==
  \E i \in DOMAIN model.classification_labels :
    model.classification_labels[i] = classification_label

\* The series a label-selectable test compares: the label's probability
\* column for a classifier, the prediction otherwise.
SelectedPrediction(model, slice, classification_label) ==
  IF model.model_type = "classification"
  THEN Predict(model, slice).all_predictions[classification_label]
  ELSE Predict(model, slice).prediction

\* test_drift_prediction_ks
test_drift_prediction_ks(reference_slice, actual_slice, model, classification_label, threshold) ==
  IF ~(model.model_type # "classification" \/ KnownLabel(model, classification_label))
  THEN Raised("AssertionError", TRUE, Append(ResetSteps, "validate_classification_label"))
  ELSE
  The({The({IF ks_result.err # "none" THEN Raised(ks_result.err, FALSE, LabelSteps)
            ELSE The({TestResult(Len(actual_slice.rows), Len(reference_slice.rows), passed,
                                 ks_result.pvalue,
                                 GenerateMessageKs(passed, ks_result, threshold,
                                                   "prediction"),
                                 LabelSteps) :
                      passed \in {IF threshold = None THEN TRUE
                                  ELSE KsPassed(ks_result.pvalue, threshold)}}) :
            ks_result \in {CalculateKs(prediction_reference, prediction_actual)}}) :
       prediction_reference \in
         {SelectedPrediction(model, reference_slice, classification_label)},
       prediction_actual \in
         {SelectedPrediction(model, actual_slice, classification_label)}})

\* test_drift_prediction_earth_movers_distance.  There is no check of the
\* label: an unknown label raises KeyError when the probability column of
\* the reference prediction is looked up.
test_drift_prediction_earth_movers_distance(reference_slice, actual_slice, model, classification_label, threshold) ==
  IF model.model_type = "classification" /\ ~KnownLabel(model, classification_label)
  THEN Raised("KeyError", FALSE, Append(ResetSteps, "predict(reference)"))
  ELSE
  The({The({IF emd.err # "none" THEN Raised(emd.err, FALSE, CalculatorSteps(PredictSteps))
            ELSE The({TestResult(
                        Len(actual_slice.rows), Len(reference_slice.rows),
                        IF threshold = None THEN TRUE ELSE EmdPassed(emd.metric, threshold),
                        emd.metric,
                        IF ~passed
                        THEN MessageList(<<ErrorMessage(
                               "metric is above the test risk level", "prediction", <<>>,
                               Round9(emd.metric), threshold)>>)
                        ELSE NoMessages,
                        CalculatorSteps(PredictSteps)) :
                      passed \in {IF threshold = None THEN TRUE
                                  ELSE EmdPassed(emd.metric, threshold)}}) :
            emd \in {CalculateEarthMoversDistance(prediction_reference,
                                                  prediction_actual)}}) :
       prediction_reference \in
         {SelectedPrediction(model, reference_slice, classification_label)},
       prediction_actual \in
         {SelectedPrediction(model, actual_slice, classification_label)}})

-----------------------------------------------------------------------------
(* map_result_to_single_test_result *)

\* map_result_to_single_test_result of a TestResult.  The list comprehension
\* over result.messages raises TypeError when messages is None.  The type
\* given to each wire message depends on enumerations defined outside this
\* file and is left out.
map_result_to_single_test_result(test_result) ==
  IF test_result.messages.k # "list"
  THEN [err |-> "TypeError", passed |-> FALSE, messages |-> <<>>, metric |-> NaN]
  ELSE [err |-> "none",
        passed |-> test_result.passed,
        messages |-> [i \in DOMAIN test_result.messages.items |->
                        [text |-> test_result.messages.items[i].text]],
        metric |-> test_result.metric]

-----------------------------------------------------------------------------
(* State *)

VARIABLES
  calc_in,        \* the arguments of a calculator called on its own
  calc_out,       \* what that calculator returned
  actual_ds,      \* the actual Dataset instance shared by the test calls
  reference_ds,   \* the reference Dataset instance shared by the test calls
  call,           \* the test entry point called last and its arguments
  result          \* the outcome of that call

vars == <<calc_in, calc_out, actual_ds, reference_ds, call, result>>

NoCall == [test |-> "none"]
NoResult == [status |-> "none"]
NoDataset == [df_index |-> <<>>, rows |-> <<>>, columns |-> {}]
NoCalc == [op |-> "none"]

\* The max_categories arguments: unset or a positive integer.  With three
\* values a cap of 3 or more never collapses anything.
MaxCategoriesArgs == {None, Num(1), Num(2)}

-----------------------------------------------------------------------------
(* The calculators on their own, on every pair of non-empty series *)

InitCalc ==
  /\ calc_in \in [actual_series : SeriesUpTo(MaxLen) \ {<<>>},
                  reference_series : SeriesUpTo(MaxLen) \ {<<>>},
                  max_categories : MaxCategoriesArgs]
  /\ calc_out = NoCalc
  /\ actual_ds = NoDataset
  /\ reference_ds = NoDataset
  /\ call = NoCall
  /\ result = NoResult

DoCalculateFrequencies ==
  /\ calc_out.op = "none"
  /\ \E order \in ModalityOrders(calc_in.actual_series, calc_in.reference_series,
                                calc_in.max_categories) :
       calc_out' = [op |-> "frequencies",
                    out |-> Frequencies(calc_in.actual_series, calc_in.reference_series,
                                        calc_in.max_categories, order)]
  /\ UNCHANGED <<calc_in, actual_ds, reference_ds, call, result>>

DoCalculateDriftPsi ==
  /\ calc_out.op = "none"
  /\ \E order \in ModalityOrders(calc_in.actual_series, calc_in.reference_series,
                                calc_in.max_categories) :
       calc_out' = [op |-> "psi",
                    out |-> CalculateDriftPsi(calc_in.actual_series, calc_in.reference_series,
                                              calc_in.max_categories, order)]
  /\ UNCHANGED <<calc_in, actual_ds, reference_ds, call, result>>

DoCalculateChiSquare ==
  /\ calc_out.op = "none"
  /\ \E order \in ModalityOrders(calc_in.actual_series, calc_in.reference_series,
                                calc_in.max_categories) :
       calc_out' = [op |-> "chi",
                    out |-> CalculateChiSquare(calc_in.actual_series, calc_in.reference_series,
                                               calc_in.max_categories, order)]
  /\ UNCHANGED <<calc_in, actual_ds, reference_ds, call, result>>

DoCalculateKs ==
  /\ calc_out.op = "none"
  /\ calc_out' = [op |-> "ks",
                  out |-> CalculateKs(calc_in.actual_series, calc_in.reference_series)]
  /\ UNCHANGED <<calc_in, actual_ds, reference_ds, call, result>>

DoCalculateEarthMoversDistance ==
  /\ calc_out.op = "none"
  /\ calc_out' = [op |-> "emd",
                  out |-> CalculateEarthMoversDistance(calc_in.actual_series,
                                                       calc_in.reference_series)]
  /\ UNCHANGED <<calc_in, actual_ds, reference_ds, call, result>>

NextCalc ==
  \/ DoCalculateFrequencies
  \/ DoCalculateDriftPsi
  \/ DoCalculateChiSquare
  \/ DoCalculateKs
  \/ DoCalculateEarthMoversDistance

SpecCalc == InitCalc /\ [][NextCalc]_vars

-----------------------------------------------------------------------------
(* The test entry points, called on two shared datasets *)

\* The arguments a caller passes.
ColumnArgs == {"cat", "num", "extra", "absent"}
ThresholdArgs == {None, Num(0), Num(Scale)}
TestMaxCategoriesArgs == {None, Num(1)}
ContributionPercentArgs == {Num(200000)}
LabelArgs == {NoLabel, "yes", "maybe"}

NoCalcIn == [actual_series |-> <<>>, reference_series |-> <<>>, max_categories |-> None]

\* A call record: the entry point and its arguments (those it does not take
\* left at a placeholder).
CallOf(test, column_name, threshold, max_categories, contribution_percent, model, classification_label) ==
  [test |-> test, column_name |-> column_name, threshold |-> threshold,
   max_categories |-> max_categories, contribution_percent |-> contribution_percent,
   model |-> model, classification_label |-> classification_label]

Init ==
  /\ calc_in = NoCalcIn
  /\ calc_out = NoCalc
  /\ actual_ds \in Datasets(ActualColumns)
  /\ reference_ds \in Datasets(ReferenceColumns)
  /\ call = NoCall
  /\ result = NoResult

\* Every entry point resets the row index of both datasets in place, first.
DatasetsAfterCall ==
  /\ actual_ds' = ResetIndex(actual_ds)
  /\ reference_ds' = ResetIndex(reference_ds)

\* The orders of the categories in a feature test: those of the series it
\* extracts (none when the extraction raises).
FeatureOrders(column_name, max_categories) ==
  The({ModalityOrders(ex.actual_series, ex.reference_series, max_categories) :
       ex \in {ExtractSeries(actual_ds, reference_ds, column_name, "category")}})

\* The orders of the categories in a prediction test.
PredictionOrders(model, max_categories) ==
  ModalityOrders(Predict(model, actual_ds).prediction,
                 Predict(model, reference_ds).prediction, max_categories)

CallTestDriftPsi ==
  /\ result.status = "none"
  /\ \E column_name \in ColumnArgs, threshold \in ThresholdArgs,
        max_categories \in TestMaxCategoriesArgs,
        psi_contribution_percent \in ContributionPercentArgs :
     \E order \in FeatureOrders(column_name, max_categories) :
       /\ call' = CallOf("test_drift_psi", column_name, threshold, max_categories,
                         psi_contribution_percent, NoModel, NoLabel)
       /\ result' = test_drift_psi(reference_ds, actual_ds, column_name, threshold,
                                   max_categories, psi_contribution_percent, order)
  /\ DatasetsAfterCall
  /\ UNCHANGED <<calc_in, calc_out>>

CallTestDriftChiSquare ==
  /\ result.status = "none"
  /\ \E column_name \in ColumnArgs, threshold \in ThresholdArgs,
        max_categories \in TestMaxCategoriesArgs,
        chi_square_contribution_percent \in ContributionPercentArgs :
     \E order \in FeatureOrders(column_name, max_categories) :
       /\ call' = CallOf("test_drift_chi_square", column_name, threshold, max_categories,
                         chi_square_contribution_percent, NoModel, NoLabel)
       /\ result' = test_drift_chi_square(reference_ds, actual_ds, column_name, threshold,
                                          max_categories, chi_square_contribution_percent,
                                          order)
  /\ DatasetsAfterCall
  /\ UNCHANGED <<calc_in, calc_out>>

CallTestDriftKs ==
  /\ result.status = "none"
  /\ \E column_name \in ColumnArgs, threshold \in ThresholdArgs :
       /\ call' = CallOf("test_drift_ks", column_name, threshold, None, None, NoModel,
                         NoLabel)
       /\ result' = test_drift_ks(reference_ds, actual_ds, column_name, threshold)
  /\ DatasetsAfterCall
  /\ UNCHANGED <<calc_in, calc_out>>

CallTestDriftEarthMoversDistance ==
  /\ result.status = "none"
  /\ \E column_name \in ColumnArgs, threshold \in ThresholdArgs :
       /\ call' = CallOf("test_drift_earth_movers_distance", column_name, threshold, None,
                         None, NoModel, NoLabel)
       /\ result' = test_drift_earth_movers_distance(reference_ds, actual_ds, column_name,
                                                     threshold)
  /\ DatasetsAfterCall
  /\ UNCHANGED <<calc_in, calc_out>>

CallTestDriftPredictionPsi ==
  /\ result.status = "none"
  /\ \E model \in Models, threshold \in ThresholdArgs,
        max_categories \in TestMaxCategoriesArgs,
        psi_contribution_percent \in ContributionPercentArgs :
     \E order \in PredictionOrders(model, max_categories) :
       /\ call' = CallOf("test_drift_prediction_psi", "", threshold, max_categories,
                         psi_contribution_percent, model, NoLabel)
       /\ result' = test_drift_prediction_psi(reference_ds, actual_ds, model,
                                              max_categories, threshold,
                                              psi_contribution_percent, order)
  /\ DatasetsAfterCall
  /\ UNCHANGED <<calc_in, calc_out>>

CallTestDriftPredictionChiSquare ==
  /\ result.status = "none"
  /\ \E model \in Models, threshold \in ThresholdArgs,
        max_categories \in TestMaxCategoriesArgs,
        chi_square_contribution_percent \in ContributionPercentArgs :
     \E order \in PredictionOrders(model, max_categories) :
       /\ call' = CallOf("test_drift_prediction_chi_square", "", threshold, max_categories,
                         chi_square_contribution_percent, model, NoLabel)
       /\ result' = test_drift_prediction_chi_square(reference_ds, actual_ds, model,
                                                     max_categories, threshold,
                                                     chi_square_contribution_percent, order)
  /\ DatasetsAfterCall
  /\ UNCHANGED <<calc_in, calc_out>>

CallTestDriftPredictionKs ==
  /\ result.status = "none"
  /\ \E model \in Models, classification_label \in LabelArgs, threshold \in ThresholdArgs :
       /\ call' = CallOf("test_drift_prediction_ks", "", threshold, None, None, model,
                         classification_label)
       /\ result' = test_drift_prediction_ks(reference_ds, actual_ds, model,
                                             classification_label, threshold)
  /\ DatasetsAfterCall
  /\ UNCHANGED <<calc_in, calc_out>>

CallTestDriftPredictionEarthMoversDistance ==
  /\ result.status = "none"
  /\ \E model \in Models, classification_label \in LabelArgs, threshold \in ThresholdArgs :
       /\ call' = CallOf("test_drift_prediction_earth_movers_distance", "", threshold, None,
                         None, model, classification_label)
       /\ result' = test_drift_prediction_earth_movers_distance(
                      reference_ds, actual_ds, model, classification_label, threshold)
  /\ DatasetsAfterCall
  /\ UNCHANGED <<calc_in, calc_out>>

\* The caller takes the outcome; the datasets stay as the call left them.
TakeResult ==
  /\ result.status # "none"
  /\ result' = NoResult
  /\ call' = NoCall
  /\ UNCHANGED <<calc_in, calc_out, actual_ds, reference_ds>>

Next ==
  \/ CallTestDriftPsi
  \/ CallTestDriftChiSquare
  \/ CallTestDriftKs
  \/ CallTestDriftEarthMoversDistance
  \/ CallTestDriftPredictionPsi
  \/ CallTestDriftPredictionChiSquare
  \/ CallTestDriftPredictionKs
  \/ CallTestDriftPredictionEarthMoversDistance
  \/ TakeResult

Spec == Init /\ [][Next]_vars

-----------------------------------------------------------------------------
(* The chi-squared tests on datasets of tens of rows, where the rounding of
   k_norm shows *)

\* A block of rows, times over.
Repeat(block, times) ==
  [i \in 1..(Len(block) * times) |-> block[((i - 1) % Len(block)) + 1]]

\* How many times a block is repeated.
RepeatArgs == {11, 15}

\* Datasets of a repeated block of rows.
RepeatedDatasets(columns) ==
  {[df_index |-> RangeIndex(Len(block) * times), rows |-> Repeat(block, times),
    columns |-> columns] :
     <<block, times>> \in (SeriesUpTo(MaxRows) \ {<<>>}) \X RepeatArgs}

InitChiSquare ==
  /\ calc_in = NoCalcIn
  /\ calc_out = NoCalc
  /\ actual_ds \in RepeatedDatasets(ActualColumns)
  /\ reference_ds \in RepeatedDatasets(ReferenceColumns)
  /\ call = NoCall
  /\ result = NoResult

NextChiSquare ==
  \/ CallTestDriftChiSquare
  \/ CallTestDriftPredictionChiSquare
  \/ TakeResult

SpecChiSquare == InitChiSquare /\ [][NextChiSquare]_vars

-----------------------------------------------------------------------------
(* Properties of the frequency table *)

\* Index of the first occurrence of v in the series.
FirstIndex(series, v) ==
  CHOOSE i \in DOMAIN series : series[i] = v /\ \A j \in 1..(i - 1) : series[j] # v

\* The values of a sequence, as a set.
Range(s) == {s[i] : i \in DOMAIN s}

CalcCapped ==
  IsCapped(calc_in.actual_series, calc_in.reference_series, calc_in.max_categories)

\* C1: the reference counts of the frequency table add up to
\* len(reference_series) and the actual counts to len(actual_series), with
\* and without the "other" bucket.
C1_CountsSumToLengths ==
  calc_out.op = "frequencies" =>
    /\ SumSeq(calc_out.out.expected_frequencies) = Len(calc_in.reference_series)
    /\ SumSeq(calc_out.out.actual_frequencies) = Len(calc_in.actual_series)

\* C1 happens: a capped table whose "other" bucket took actual values.
C1_Witness ==
  /\ calc_out.op = "frequencies"
  /\ CalcCapped
  /\ calc_out.out.actual_frequencies[Len(calc_out.out.all_modalities)] > 0
  /\ Len(calc_in.actual_series) # Len(calc_in.reference_series)

\* C2: on the capped path the categories are the max_categories most
\* frequent reference values (ties: first encountered wins) followed by one
\* "other" category, at most max_categories + 1 in all; "other" counts, on
\* each side, the length minus the counts of the selected categories, and
\* every actual value outside the selection is counted in "other".
C2_TopCategoriesPlusOther ==
  (calc_out.op = "frequencies" /\ CalcCapped) =>
    LET mods == calc_out.out.all_modalities
        last == Len(mods)
        selected == {mods[i] : i \in 1..(last - 1)}
        ref == calc_in.reference_series
        act == calc_in.actual_series
        SelectedSum(series) ==
          Cardinality({i \in DOMAIN series : series[i] \in selected})
    IN /\ last >= 1
       /\ mods[last] = other_modalities_key
       /\ other_modalities_key \notin selected
       /\ Cardinality(selected) = last - 1
       /\ last <= calc_in.max_categories.v + 1
       /\ Cardinality(selected) = Min2(calc_in.max_categories.v, Cardinality(Range(ref)))
       /\ selected \subseteq Range(ref)
       /\ \A c \in selected : \A d \in Range(ref) \ selected :
            \/ Count(ref, d) < Count(ref, c)
            \/ Count(ref, d) = Count(ref, c) /\ FirstIndex(ref, c) < FirstIndex(ref, d)
       /\ \A i \in 1..(last - 1) :
            /\ calc_out.out.expected_frequencies[i] = Count(ref, mods[i])
            /\ calc_out.out.actual_frequencies[i] = Count(act, mods[i])
       /\ calc_out.out.expected_frequencies[last] = Len(ref) - SelectedSum(ref)
       /\ calc_out.out.actual_frequencies[last] = Len(act) - SelectedSum(act)
       /\ calc_out.out.actual_frequencies[last]
            = Cardinality({i \in DOMAIN act : act[i] \notin selected})

\* C2 happens: a tie between reference values decided the selection, and an
\* actual value outside the selection went to "other".
C2_Witness ==
  /\ calc_out.op = "frequencies"
  /\ CalcCapped
  /\ LET mods == calc_out.out.all_modalities
         selected == {mods[i] : i \in 1..(Len(mods) - 1)}
     IN /\ \E c \in selected : \E d \in Range(calc_in.reference_series) \ selected :
             Count(calc_in.reference_series, c) = Count(calc_in.reference_series, d)
        /\ \E i \in DOMAIN calc_in.actual_series :
             calc_in.actual_series[i] \notin Range(calc_in.reference_series)

-----------------------------------------------------------------------------
(* Properties of the PSI *)

\* The two series have the same proportion of every observed value.
SameDistributions(actual_series, reference_series) ==
  \A v \in UnionOfValues(actual_series, reference_series) :
    Count(reference_series, v) * Len(actual_series)
      = Count(actual_series, v) * Len(reference_series)

\* Count of the table's modality m in a series: a value's own count, and for
\* "other" what the values of the table leave over.
TableCount(series, table, m) ==
  IF m = other_modalities_key
  THEN Cardinality({i \in DOMAIN series :
         \A r \in DOMAIN table : table[r].Modality # series[i]})
  ELSE Count(series, m)

\* max(c1 / n1, 0.0001) = max(c2 / n2, 0.0001)
SameFlooredProportion(c1, n1, c2, n2) ==
  LET low1 == c1 * MinProbabilityDen <= n1
      low2 == c2 * MinProbabilityDen <= n2
  IN IF low1 \/ low2 THEN low1 /\ low2 ELSE c1 * n2 = c2 * n1

\* The rows of the PSI table have the same floored proportion on both sides.
SameTableDistributions ==
  \A r \in DOMAIN calc_out.out.output_data :
    LET m == calc_out.out.output_data[r].Modality
    IN SameFlooredProportion(
         TableCount(calc_in.reference_series, calc_out.out.output_data, m),
         Len(calc_in.reference_series),
         TableCount(calc_in.actual_series, calc_out.out.output_data, m),
         Len(calc_in.actual_series))

\* C3 as stated: the total PSI is >= 0, and 0 exactly when the two series
\* have identical proportions for every observed category.
C3_PsiZeroIffSameDistributions ==
  calc_out.op = "psi" =>
    /\ FloatLeq(Num(0), calc_out.out.total_psi)
    /\ (calc_out.out.total_psi = Num(0)
          <=> SameDistributions(calc_in.actual_series, calc_in.reference_series))

\* C3 amended: the total PSI is >= 0, and 0 exactly when every row of the
\* frequency table (after the collapse into "other") has the same proportion
\* on both sides once floored at 0.0001.
C3_PsiZeroIffSameTableDistributions ==
  calc_out.op = "psi" =>
    /\ FloatLeq(Num(0), calc_out.out.total_psi)
    /\ (calc_out.out.total_psi = Num(0) <=> SameTableDistributions)

\* C3 amended happens: a collapsed table with equal rows and a PSI of 0 for
\* two series whose distributions differ.
C3_Witness ==
  /\ calc_out.op = "psi"
  /\ CalcCapped
  /\ calc_out.out.total_psi = Num(0)
  /\ SameTableDistributions
  /\ ~SameDistributions(calc_in.actual_series, calc_in.reference_series)

-----------------------------------------------------------------------------
(* Properties of the chi-squared statistic *)

\* C4: the statistic is >= 0, the p-value lies in [0, 1], and the p-value is
\* 0 when the frequency table has at most one category.
C4_ChiSquareRanges ==
  calc_out.op = "chi" =>
    /\ calc_out.out.err = "none"
    /\ FloatLeq(Num(0), calc_out.out.chi_square)
    /\ FloatLeq(Num(0), calc_out.out.p_value)
    /\ FloatLeq(calc_out.out.p_value, Num(Scale))
    /\ (Len(calc_out.out.output_data) <= 1 => calc_out.out.p_value = Num(0))

\* C4 happens: a table of one category, with a p-value of 0.
C4_Witness ==
  /\ calc_out.op = "chi"
  /\ Len(calc_out.out.output_data) = 1
  /\ calc_out.out.p_value = Num(0)

-----------------------------------------------------------------------------
(* Properties of the validation done by the entry points *)

FeatureTests ==
  {"test_drift_psi", "test_drift_chi_square", "test_drift_ks",
   "test_drift_earth_movers_distance"}
CategoryTests == {"test_drift_psi", "test_drift_chi_square"}
LabelTests == {"test_drift_prediction_ks", "test_drift_prediction_earth_movers_distance"}
PsiTests == {"test_drift_psi", "test_drift_prediction_psi"}
ChiSquareTests == {"test_drift_chi_square", "test_drift_prediction_chi_square"}
KsTests == {"test_drift_ks", "test_drift_prediction_ks"}
EarthMoversTests ==
  {"test_drift_earth_movers_distance", "test_drift_prediction_earth_movers_distance"}

\* A call has ended and its outcome is still on hand.
Ended == result.status # "none"

\* The steps the ended call took.
StepTaken(step) == \E i \in DOMAIN result.steps : result.steps[i] = step
CalculatorInvoked == StepTaken("calculator")
PredictInvoked == StepTaken("predict(reference)") \/ StepTaken("predict(actual)")

\* One of the two series the call compares is empty: a column, a prediction
\* and a probability column have one value per row of their dataset.
ComparedSeriesEmpty == Len(actual_ds.rows) = 0 \/ Len(reference_ds.rows) = 0

\* The call names a label the classifier does not know.
UnknownLabelCall ==
  /\ call.test \in LabelTests
  /\ call.model.model_type = "classification"
  /\ ~KnownLabel(call.model, call.classification_label)

\* The column of a feature test is in both datasets and of the test's type.
ColumnAccepted ==
  call.test \in FeatureTests =>
    /\ call.column_name \in actual_ds.columns \cap reference_ds.columns
    /\ FeatureType(call.column_name) =
         (IF call.test \in CategoryTests THEN "category" ELSE "numeric")

\* x <= y of a metric and a threshold that is a number.
Le(x, y) == x.k = "num" /\ y.k = "num" /\ x.v <= y.v

\* x > y of a metric and a threshold that is a number.
Gt(x, y) == y.k = "num" /\ (x.k = "inf" \/ (x.k = "num" /\ x.v > y.v))

\* C5: in every drift entry point, if either compared series (dataset column
\* or model prediction) is empty, an input validation error is raised before
\* any calculator is invoked.  Calls naming a label the classifier does not
\* know are C6's and are left out here.
C5_EmptySeriesRaisesValidationError ==
  (Ended /\ ComparedSeriesEmpty /\ ~UnknownLabelCall) =>
    (result.status = "raised" /\ result.validation /\ ~CalculatorInvoked)

\* C6: in test_drift_prediction_ks and
\* test_drift_prediction_earth_movers_distance, when the model is a classifier
\* and classification_label is not one of its labels, the call ends in an
\* input validation error raised before any prediction or calculation, and
\* returns no test result.
C6_UnknownLabelRaisesValidationError ==
  (Ended /\ UnknownLabelCall) =>
    /\ result.status = "raised"
    /\ result.validation
    /\ ~PredictInvoked
    /\ ~CalculatorInvoked

-----------------------------------------------------------------------------
(* Properties of the pass/fail decisions *)

\* C7: the feature and the prediction Earth-Mover tests, on accepted
\* non-empty inputs, return a result with passed = TRUE when threshold is
\* None and passed = (metric <= threshold) otherwise; a call with threshold
\* None returns and does not raise.
C7_EarthMoversPassed ==
  (Ended /\ call.test \in EarthMoversTests /\ ColumnAccepted /\ ~UnknownLabelCall
     /\ ~ComparedSeriesEmpty) =>
    /\ result.status = "returned"
    /\ result.passed = (call.threshold = None \/ Le(result.metric, call.threshold))

\* C8: the feature and the prediction PSI tests return passed = TRUE when
\* threshold is None and passed = (total PSI <= threshold) otherwise, a total
\* equal to the threshold passing; on accepted non-empty inputs whose
\* categories are strings they return.
C8_PsiPassed ==
  (Ended /\ call.test \in PsiTests) =>
    /\ (ColumnAccepted /\ ~ComparedSeriesEmpty /\ call.model.model_type # "regression") =>
         result.status = "returned"
    /\ result.status = "returned" =>
         result.passed = (call.threshold = None \/ Le(result.metric, call.threshold))

\* A total PSI equal to the threshold, in a feature test.
C8_Witness ==
  /\ Ended
  /\ call.test = "test_drift_psi"
  /\ result.status = "returned"
  /\ call.threshold = Num(0)
  /\ result.metric = Num(0)
  /\ result.passed

C10_KsPassed ==
  (Ended /\ call.test \in KsTests /\ result.status = "returned") =>
    /\ call.test = "test_drift_ks" =>
         result.passed = Le(call.threshold, result.metric)
    /\ call.test = "test_drift_prediction_ks" =>
         result.passed = (call.threshold = None \/ Le(call.threshold, result.metric))

\* A p-value equal to the threshold, in a feature test.
C10_Witness ==
  /\ Ended
  /\ call.test = "test_drift_ks"
  /\ result.status = "returned"
  /\ result.metric = call.threshold
  /\ result.passed
-----------------------------------------------------------------------------
(* Properties of the earth-mover distance *)

\* The values of a series with their multiplicities.
Multiset(series) == [v \in Values |-> Count(series, v)]

\* The combined values of both series have one minimum and maximum.
CalcDegenerate ==
  Cardinality(UnionOfValues(calc_in.actual_series, calc_in.reference_series)) = 1

\* C11: _calculate_earth_movers_distance returns exactly 0, with no division
\* carried out, when the minimum and the maximum of the combined values of
\* both series are equal; it returns 0 when the two series are the same
\* multiset; and its result is never negative.
C11_EarthMoversZeroAndNonNegative ==
  calc_out.op = "emd" =>
    /\ calc_out.out.err = "none"
    /\ calc_out.out.metric.k = "num"
    /\ calc_out.out.metric.v >= 0
    /\ CalcDegenerate => (calc_out.out.metric = Num(0) /\ calc_out.out.divisions = 0)
    /\ Multiset(calc_in.actual_series) = Multiset(calc_in.reference_series) =>
         calc_out.out.metric = Num(0)

\* The same multiset in two orders, with distinct minimum and maximum.
C11_Witness ==
  /\ calc_out.op = "emd"
  /\ ~CalcDegenerate
  /\ calc_in.actual_series # calc_in.reference_series
  /\ Multiset(calc_in.actual_series) = Multiset(calc_in.reference_series)
  /\ calc_out.out.metric = Num(0)
  /\ calc_out.out.divisions = 2
-----------------------------------------------------------------------------
(* Properties of the datasets handed to an entry point *)

\* C12: a test invocation never mutates the datasets it is given: after any
\* entry point returns or raises, the row index of the actual and of the
\* reference dataset is what it was before the call.
C12_DatasetsNotMutated ==
  [][actual_ds' = actual_ds /\ reference_ds' = reference_ds]_vars

\* The outcome of a step is a column or feature type validation error of a
\* feature test.
ColumnValidationError(test, outcome) ==
  /\ outcome.status = "raised"
  /\ test \in FeatureTests
  /\ outcome.error = "AssertionError"

\* C13: in every feature test the column and the feature type are validated
\* before the row indices are reset: when a missing-column or a wrong-type
\* validation error is raised, no row index was reset and no calculator was
\* invoked.
C13_ValidationBeforeReset ==
  [][(result.status = "none" /\ ColumnValidationError(call'.test, result')) =>
       /\ actual_ds'.df_index = actual_ds.df_index
       /\ reference_ds'.df_index = reference_ds.df_index
       /\ \A i \in DOMAIN result'.steps :
            result'.steps[i] \notin {"reset_index(actual)", "reset_index(reference)",
                                     "calculator"}]_vars
-----------------------------------------------------------------------------
(* Properties of the messages *)

\* The messages of the ended call, as a sequence.
Messages == IF result.messages.k = "list" THEN result.messages.items ELSE <<>>

\* The call returned a failing result.
ReturnedFailing == Ended /\ result.status = "returned" /\ ~result.passed

\* The texts that report a metric and a threshold.
BelowTemplates ==
  {"p-value is below the test risk level", "metric is below the test risk level"}
AboveTemplates == {"metric is above the test risk level"}

\* The message reports the metric of the result, rounded, and the threshold
\* of the call.
ReportsMetricAndThreshold(message) ==
  /\ message.text.template \in BelowTemplates \cup AboveTemplates
  /\ message.text.value = Round9(result.metric)
  /\ message.text.threshold = call.threshold

\* C14: whenever a drift test returns passed = FALSE, its messages hold a
\* message that reports the metric value, rounded to 9 decimals, and the
\* threshold; in every entry point, the PSI and chi-squared ones included.
\* Calls on an empty series are C5's and are left out here.
C14_FailureReportsMetricAndThreshold ==
  (ReturnedFailing /\ ~ComparedSeriesEmpty) =>
    \E i \in DOMAIN Messages : ReportsMetricAndThreshold(Messages[i])

\* C15: the direction stated in a failure message matches the pass rule: a
\* failing KS test says the p-value is below the threshold, a failing
\* Earth-Mover test, feature or prediction, says the metric is above it.
C15_MessageDirectionMatchesRule ==
  ReturnedFailing =>
    /\ call.test \in KsTests =>
         /\ Messages # <<>>
         /\ \A i \in DOMAIN Messages : Messages[i].text.template \in BelowTemplates
    /\ call.test \in EarthMoversTests =>
         /\ Messages # <<>>
         /\ \A i \in DOMAIN Messages : Messages[i].text.template \in AboveTemplates

\* The two series the ended call compared.
CallActualSeries ==
  IF call.test \in FeatureTests THEN Column(actual_ds, call.column_name)
  ELSE Predict(call.model, actual_ds).prediction
CallReferenceSeries ==
  IF call.test \in FeatureTests THEN Column(reference_ds, call.column_name)
  ELSE Predict(call.model, reference_ds).prediction

\* The rows of the diagnostic table of the ended PSI or chi-squared call with
\* their contributions, and the total.  Which rows exceed their share of the
\* total does not depend on the order of the rows.
CallTable ==
  The({IF call.test \in PsiTests
       THEN The({[total |-> psi.total_psi,
                  rows |-> [i \in DOMAIN psi.output_data |->
                              [Modality |-> psi.output_data[i].Modality,
                               contribution |-> psi.output_data[i].Psi]]] :
                 psi \in {CalculateDriftPsi(CallActualSeries, CallReferenceSeries,
                                            call.max_categories, order)}})
       ELSE The({[total |-> chi.chi_square,
                  rows |-> [i \in DOMAIN chi.output_data |->
                              [Modality |-> chi.output_data[i].Modality,
                               contribution |-> chi.output_data[i].Chi_square]]] :
                 chi \in {CalculateChiSquare(CallActualSeries, CallReferenceSeries,
                                             call.max_categories, order)}}) :
       order \in {CHOOSE o \in ModalityOrders(CallActualSeries, CallReferenceSeries,
                                              call.max_categories) : TRUE}})

\* The modalities whose contribution exceeds contribution_percent times the
\* total.
FlaggedModalities ==
  The({{t.rows[i].Modality : i \in {j \in DOMAIN t.rows :
          FloatGt(t.rows[j].contribution, FloatTimes(call.contribution_percent, t.total))}} :
       t \in {CallTable}})

\* The modalities named in the messages of the ended call.
NamedModalities == UNION {Range(Messages[i].text.modalities) : i \in DOMAIN Messages}

\* A PSI or chi-squared call has returned.
ReturnedCategoryResult ==
  Ended /\ result.status = "returned" /\ call.test \in PsiTests \cup ChiSquareTests

\* C16: in PSI and chi-squared tests a category is named in the drift message
\* exactly when its contribution exceeds contribution_percent times the total
\* and it is a category of the data: the "other" bucket is never named, and
\* no flagged category of the data is left out.
C16_NamedIffFlaggedAndReal ==
  ReturnedCategoryResult =>
    NamedModalities = {m \in FlaggedModalities : m # other_modalities_key}

\* C16, amended: a category is named exactly when its contribution exceeds
\* contribution_percent times the total and its name does not match
\* other_modalities_pattern; the "other" bucket is never named, and a
\* category of the data is left out only when it is named like an "other"
\* key.
C16_NamedIffFlaggedAndNotOtherPattern ==
  ReturnedCategoryResult =>
    /\ NamedModalities = {m \in FlaggedModalities : ~MatchesOtherPattern(m)}
    /\ other_modalities_key \notin NamedModalities

\* The "other" bucket is flagged and left out, another category is named.
C16_Witness ==
  /\ ReturnedCategoryResult
  /\ other_modalities_key \in FlaggedModalities
  /\ NamedModalities # {}
  /\ other_modalities_key \notin NamedModalities

-----------------------------------------------------------------------------
(* Determinism *)

\* The orders in which the ended call may have enumerated the category set.
CallOrders ==
  IF call.test \in PsiTests \cup ChiSquareTests
  THEN ModalityOrders(CallActualSeries, CallReferenceSeries, call.max_categories)
  ELSE {<<>>}

\* A second invocation of the entry point of the ended call on the same
\* arguments and datasets, the category set enumerated in the given order.
Reinvoked(order) ==
  CASE call.test = "test_drift_psi" ->
         test_drift_psi(reference_ds, actual_ds, call.column_name, call.threshold,
                        call.max_categories, call.contribution_percent, order)
    [] call.test = "test_drift_chi_square" ->
         test_drift_chi_square(reference_ds, actual_ds, call.column_name, call.threshold,
                               call.max_categories, call.contribution_percent, order)
    [] call.test = "test_drift_ks" ->
         test_drift_ks(reference_ds, actual_ds, call.column_name, call.threshold)
    [] call.test = "test_drift_earth_movers_distance" ->
         test_drift_earth_movers_distance(reference_ds, actual_ds, call.column_name,
                                          call.threshold)
    [] call.test = "test_drift_prediction_psi" ->
         test_drift_prediction_psi(reference_ds, actual_ds, call.model,
                                   call.max_categories, call.threshold,
                                   call.contribution_percent, order)
    [] call.test = "test_drift_prediction_chi_square" ->
         test_drift_prediction_chi_square(reference_ds, actual_ds, call.model,
                                          call.max_categories, call.threshold,
                                          call.contribution_percent, order)
    [] call.test = "test_drift_prediction_ks" ->
         test_drift_prediction_ks(reference_ds, actual_ds, call.model,
                                  call.classification_label, call.threshold)
    [] call.test = "test_drift_prediction_earth_movers_distance" ->
         test_drift_prediction_earth_movers_distance(reference_ds, actual_ds, call.model,
                                                     call.classification_label,
                                                     call.threshold)

\* What a caller sees of an outcome.
Observed(outcome) ==
  [status |-> outcome.status, passed |-> outcome.passed, metric |-> outcome.metric,
   messages |-> outcome.messages]

\* C17: drift tests are deterministic and stateless: a second invocation of
\* the same entry point on equal inputs gives the same passed flag, the same
\* metric and the same message sequence, whatever was invoked before and in
\* whatever order the category set is enumerated.
C17_SameInputsSameResult ==
  Ended => \A order \in CallOrders : Observed(Reinvoked(order)) = Observed(result)

-----------------------------------------------------------------------------
(* Properties of the wire result *)

\* C18: every test result returned by a drift entry point carries its
\* messages as a sequence, empty when there is nothing to report, so that
\* map_result_to_single_test_result maps it to a wire result without error.
\* Calls on an empty series are C5's and are left out here.
C18_ReturnedResultIsMapped ==
  (Ended /\ result.status = "returned" /\ ~ComparedSeriesEmpty) =>
    /\ result.messages.k = "list"
    /\ map_result_to_single_test_result(result).err = "none"

-----------------------------------------------------------------------------
(* Properties of the chi-squared p-value and of the drift messages *)

\* chi2.cdf of the statistic the calculator returned, for its table.
CalcChiCdf == Chi2Cdf(calc_out.out.chi_square, Len(calc_out.out.output_data) - 1)

\* C19: in _calculate_chi_square with more than one category the p-value is
\* 1 - CDF(chi_square, categories - 1), unless that CDF is exactly 0: then
\* the p-value is 0, not 1.
C19_PValueOfCdf ==
  (calc_out.op = "chi" /\ Len(calc_out.out.output_data) > 1) =>
    /\ CalcChiCdf.k = "num"
    /\ CalcChiCdf.v = 0 => calc_out.out.p_value = Num(0)
    /\ CalcChiCdf.v # 0 => calc_out.out.p_value = Num(Scale - CalcChiCdf.v)

\* Two categories with the same proportions on both sides: the statistic and
\* its CDF are 0, and so is the p-value.
C19_Witness ==
  /\ calc_out.op = "chi"
  /\ Len(calc_out.out.output_data) > 1
  /\ calc_out.out.chi_square = Num(0)
  /\ CalcChiCdf = Num(0)
  /\ calc_out.out.p_value = Num(0)

\* C20: diagnostic messages are built for the failing case only: a PSI or
\* chi-squared result with passed = TRUE carries no "is drifting for the
\* following modalities" ERROR message.  Calls on an empty series are C5's
\* and are left out here.
C20_NoDriftMessageWhenPassed ==
  (ReturnedCategoryResult /\ result.passed /\ ~ComparedSeriesEmpty) =>
    \A i \in DOMAIN Messages :
      ~(Messages[i].type = "ERROR"
          /\ Messages[i].text.template = "drifting for the following modalities")

-----------------------------------------------------------------------------
(* Properties of the chi-squared terms *)

\* C21: on two non-empty series the chi-squared calculator never divides by
\* zero: the denominator expected_frequencies[i] * k_norm of every category
\* is non-zero, also for a category of the actual series that the reference
\* series does not hold, and every term is a finite number.
C21_ChiSquareNeverDividesByZero ==
  calc_out.op = "chi" =>
    /\ calc_out.out.err = "none"
    /\ \A i \in DOMAIN calc_out.out.output_data :
         /\ calc_out.out.output_data[i].Reference_frequencies
              * Len(calc_in.actual_series) # 0
         /\ calc_out.out.output_data[i].Chi_square.k = "num"

-----------------------------------------------------------------------------
(* Properties of the diagnostic table of the PSI *)

\* C22: in the diagnostic table of _calculate_drift_psi the
\* Actual_distribution of each row is the proportion of the row's category
\* in the actual series, actual count / len(actual_series), and its
\* Reference_distribution is the proportion in the reference series.
C22_PsiTableDistributions ==
  calc_out.op = "psi" =>
    \A r \in DOMAIN calc_out.out.output_data :
      /\ calc_out.out.output_data[r].Actual_distribution =
           Frac(TableCount(calc_in.actual_series, calc_out.out.output_data,
                           calc_out.out.output_data[r].Modality),
                Len(calc_in.actual_series))
      /\ calc_out.out.output_data[r].Reference_distribution =
           Frac(TableCount(calc_in.reference_series, calc_out.out.output_data,
                           calc_out.out.output_data[r].Modality),
                Len(calc_in.reference_series))
\* C23: a chi-squared test, feature or prediction, on two series with the
\* same proportion of every category never passes for a threshold >= 0: the
\* statistic is 0 and the p-value is forced to 0.
C23_EqualProportionsNeverPass ==
  (/\ Ended
   /\ call.test \in ChiSquareTests
   /\ result.status = "returned"
   /\ SameDistributions(CallActualSeries, CallReferenceSeries)) =>
    /\ result.metric = Num(0)
    /\ ~result.passed

\* The two series of the ended label-selectable prediction call.
CallSelectedActual == SelectedPrediction(call.model, actual_ds, call.classification_label)
CallSelectedReference ==
  SelectedPrediction(call.model, reference_ds, call.classification_label)

\* C24: the KS p-value and the Earth-Mover metric do not change when the two
\* series are swapped, so the prediction KS and the prediction Earth-Mover
\* tests, which hand (reference, actual) to calculators declared as
\* (actual, reference), return the metric and the passed flag of the call in
\* the declared order.
C24_SwappedArgumentsSameResult ==
  (Ended /\ call.test \in LabelTests /\ result.status = "returned") =>
    IF call.test = "test_drift_prediction_ks"
    THEN /\ result.metric = CalculateKs(CallSelectedActual, CallSelectedReference).pvalue
         /\ result.passed =
              (call.threshold = None
                 \/ KsPassed(CalculateKs(CallSelectedActual,
                                          CallSelectedReference).pvalue,
                             call.threshold))
    ELSE /\ result.metric =
              CalculateEarthMoversDistance(CallSelectedActual,
                                           CallSelectedReference).metric
         /\ result.passed =
              (call.threshold = None
                 \/ EmdPassed(CalculateEarthMoversDistance(CallSelectedActual,
                                                           CallSelectedReference).metric,
                              call.threshold))

\* A prediction Earth-Mover call on two different series of different
\* lengths, with a metric above zero.
C24_Witness ==
  /\ Ended
  /\ call.test = "test_drift_prediction_earth_movers_distance"
  /\ result.status = "returned"
  /\ Len(CallSelectedActual) # Len(CallSelectedReference)
  /\ Multiset(CallSelectedActual) # Multiset(CallSelectedReference)
  /\ Gt(result.metric, Num(0))

====
